---- MODULE Spec2Model ----
(***************************************************************************)
(* Model of the `common` helpers: the MsgConst write-once registry          *)
(* (message.py), the standard_resp response wrapper and the Serializer      *)
(* (helper.py).  Python values are tagged records; strings whose characters *)
(* matter (attribute names, strftime output) are sequences of characters.   *)
(***************************************************************************)
EXTENDS Integers, Sequences, FiniteSets, TLC

VARIABLES
    registry,        \* msg_const.__dict__ : attribute name -> value
    setattrArgs,     \* <<name, value>> of the last __setattr__ call, <<>> before any
    setattrRaised,   \* exception class raised by the last __setattr__ call, "None" if none
    handlerOutcome,  \* what func(*args, **kwargs) did in the last make_response call
    wrapperResult,   \* what the last make_response call gave its caller
    wrapperEvents,   \* observable effects of the last make_response call, in order
    stderrTraces,    \* number of traces traceback.print_exc() has written so far
    serInput,        \* argument of the last Serializer.as_dict call
    serInputAfter,   \* the same object as it is after the call
    serResult        \* what the last Serializer.as_dict call gave its caller

vars == <<registry, setattrArgs, setattrRaised,
          handlerOutcome, wrapperResult, wrapperEvents, stderrTraces,
          serInput, serInputAfter, serResult>>

registryVars == <<registry, setattrArgs, setattrRaised>>
wrapperVars == <<handlerOutcome, wrapperResult, wrapperEvents, stderrTraces>>
serializerVars == <<serInput, serInputAfter, serResult>>

(***************************************************************************)
(* Bounds                                                                  *)
(***************************************************************************)
MaxValue == 2      \* values written to the registry are 1..MaxValue
MaxTraces == 2     \* calls of make_response that fail are counted up to this
MaxCols == 2       \* columns of a table / of a joined-query row
MaxList == 2       \* length of a list handed to as_dict

(***************************************************************************)
(* message.py : MsgConst                                                   *)
(***************************************************************************)
UpperChars == {"A","B","C","D","E","F","G","H","I","J","K","L","M",
               "N","O","P","Q","R","S","T","U","V","W","X","Y","Z"}
LowerChars == {"a","b","c","d","e","f","g","h","i","j","k","l","m",
               "n","o","p","q","r","s","t","u","v","w","x","y","z"}

APPLICATION_404 == <<"A","P","P","L","I","C","A","T","I","O","N","_","4","0","4">>
APPLICATION_403 == <<"A","P","P","L","I","C","A","T","I","O","N","_","4","0","3">>

\* attribute names tried on msg_const
Names == { APPLICATION_404, APPLICATION_403, <<"O","K">>,
           <<"A","p","p","_","4","0","4">>, <<"o","k">>, <<"_","4","0","4">> }

Values == 1..MaxValue

\* a plausible slip: only the first character is looked at
isupper_first(name) == name[1] \in UpperChars

\* str.isupper(): no lower-case character and at least one upper-case one
isupper(name) ==
    /\ \A i \in 1..Len(name) : name[i] \notin LowerChars
    /\ \E i \in 1..Len(name) : name[i] \in UpperChars

\* a plausible slip: the "already assigned" test is missing
setattr_norewritecheck(dict, name, value) ==
    IF ~isupper(name)
    THEN [dict |-> dict, raised |-> "ConstCaseError"]
    ELSE [dict |-> [n \in (DOMAIN dict) \cup {name} |->
                        IF n = name THEN value ELSE dict[n]],
          raised |-> "None"]

\* MsgConst.__setattr__(self, name, value) on self.__dict__ = dict
MsgConst_setattr(dict, name, value) ==
    IF name \in DOMAIN dict
    THEN [dict |-> dict, raised |-> "ConstError"]
    ELSE IF ~isupper(name)
    THEN [dict |-> dict, raised |-> "ConstCaseError"]
    ELSE [dict |-> [n \in (DOMAIN dict) \cup {name} |->
                        IF n = name THEN value ELSE dict[n]],
          raised |-> "None"]

\* msg_const.<name> = value
Setattr ==
    /\ \E name \in Names, value \in Values :
          LET r == MsgConst_setattr(registry, name, value) IN
          /\ registry' = r.dict
          /\ setattrArgs' = <<name, value>>
          /\ setattrRaised' = r.raised
    /\ UNCHANGED <<wrapperVars, serializerVars>>

(***************************************************************************)
(* Python values                                                           *)
(***************************************************************************)
PyNone == [ty |-> "NoneType"]
PyInt(n) == [ty |-> "int", n |-> n]
PyStr(chars) == [ty |-> "str", chars |-> chars]
PyDatetime(y, mo, d, h, mi, s) ==
    [ty |-> "datetime", year |-> y, month |-> mo, day |-> d,
     hour |-> h, minute |-> mi, second |-> s]
PyDate(y, mo, d) == [ty |-> "date", year |-> y, month |-> mo, day |-> d]
PyTime(h, mi, s) == [ty |-> "time", hour |-> h, minute |-> mi, second |-> s]
\* decimal.Decimal: unscaled * 10^(-scale)
PyDecimal(unscaled, scale) == [ty |-> "Decimal", unscaled |-> unscaled, scale |-> scale]
\* float, as the exact ratio num / den
PyFloat(num, den) == [ty |-> "float", num |-> num, den |-> den]
\* dict: the (key, value) pairs in insertion order
PyDict(items) == [ty |-> "dict", items |-> items]
PyList(elems) == [ty |-> "list", elems |-> elems]

\* the values the database layer hands out
DT1 == PyDatetime(2023, 5, 1, 10, 15, 30)
DT2 == PyDatetime(1999, 12, 31, 23, 9, 5)
D1 == PyDate(2023, 5, 1)
T1 == PyTime(9, 5, 30)
DEC1 == PyDecimal(125, 1)
INT1 == PyInt(7)

\* isinstance(value, cls) for the classes of Serializer.time_type:
\* datetime.datetime is a subclass of datetime.date; the sqlalchemy column
\* types DateTime, Date and Time are never the class of a value
isinstance_value(value, cls) ==
    \/ value.ty = cls
    \/ value.ty = "datetime" /\ cls = "date"

(***************************************************************************)
(* strftime                                                                *)
(***************************************************************************)
DigitChars == <<"0","1","2","3","4","5","6","7","8","9">>

RECURSIVE Pow10(_)
Pow10(k) == IF k = 0 THEN 1 ELSE 10 * Pow10(k - 1)

\* n as `width` decimal digits, zero-padded (%m %d %H %M %S; %Y for 1000..9999)
Digits(n, width) ==
    [i \in 1..width |-> DigitChars[((n \div Pow10(width - i)) % 10) + 1]]

\* value.strftime("%Y-%m-%d %H:%M:%S")
strftime_datetime(value) ==
    PyStr(Digits(value.year, 4) \o <<"-">> \o Digits(value.month, 2) \o <<"-">>
          \o Digits(value.day, 2) \o <<" ">> \o Digits(value.hour, 2) \o <<":">>
          \o Digits(value.minute, 2) \o <<":">> \o Digits(value.second, 2))

\* value.strftime("%Y-%m-%d")
strftime_date(value) ==
    PyStr(Digits(value.year, 4) \o <<"-">> \o Digits(value.month, 2) \o <<"-">>
          \o Digits(value.day, 2))

\* value.strftime("%H:%M:%S")
strftime_time(value) ==
    PyStr(Digits(value.hour, 2) \o <<":">> \o Digits(value.minute, 2) \o <<":">>
          \o Digits(value.second, 2))

(***************************************************************************)
(* helper.py : Serializer.as_dict                                          *)
(***************************************************************************)
\* time_type = [c_datetime, DateTime, date, Date, Time, time]
time_type == {"datetime", "DateTime", "date", "Date", "Time", "time"}

\* a plausible slip: the date branch is tested before the datetime branch
convert_datetime_datefirst(value) ==
    IF isinstance_value(value, "date") THEN strftime_date(value)
    ELSE IF isinstance_value(value, "datetime") THEN strftime_datetime(value)
    ELSE IF isinstance_value(value, "time") THEN strftime_time(value)
    ELSE PyNone

\* convert_datetime(value); falling off the end returns None
convert_datetime(value) ==
    IF isinstance_value(value, "datetime") \/ isinstance_value(value, "DateTime")
    THEN strftime_datetime(value)
    ELSE IF isinstance_value(value, "date") \/ isinstance_value(value, "Date")
    THEN strftime_date(value)
    ELSE IF isinstance_value(value, "Time") \/ isinstance_value(value, "time")
    THEN strftime_time(value)
    ELSE PyNone

\* float(x): a Decimal converts, None raises TypeError
float(x) ==
    IF x.ty = "Decimal"
    THEN [raised |-> "None", value |-> PyFloat(x.unscaled, Pow10(x.scale))]
    ELSE IF x.ty = "float" \/ x.ty = "int"
    THEN [raised |-> "None", value |-> x]
    ELSE [raised |-> "TypeError"]

\* one step of model_to_dict: the value yielded for column i of _model
model_to_dict_value(_model, i) ==
    LET col == _model.columns[i]
        attr == _model.attrs[i]
    IN  IF col.type = "DateTime"
        THEN [raised |-> "None", value |-> convert_datetime(attr)]
        ELSE IF col.type = "Numeric"
        THEN float(attr)
        ELSE [raised |-> "None", value |-> attr]

\* dict((g[0], g[1]) for g in model_to_dict(_model)); column names are distinct
model_to_dict(_model) ==
    LET n == Len(_model.columns)
        step(i) == model_to_dict_value(_model, i)
    IN  IF \E i \in 1..n : step(i).raised # "None"
        THEN [raised |-> "TypeError"]
        ELSE [raised |-> "None",
              value |-> PyDict([i \in 1..n |-> <<_model.columns[i].name, step(i).value>>])]

\* dict(zip(r.keys(), (convert_datetime(_r) if type(_r) in time_type else _r for _r in r)))
row_to_dict(r) ==
    PyDict([i \in 1..Len(r.keys) |->
              <<r.keys[i],
                IF r.vals[i].ty \in time_type THEN convert_datetime(r.vals[i])
                ELSE r.vals[i]>>])

\* result_to_dict(results)
result_to_dict(results) ==
    PyList([i \in 1..Len(results) |-> row_to_dict(results[i])])

\* Serializer.as_dict(models)
as_dict(models) ==
    IF models.ty = "list"
    THEN IF Len(models.elems) = 0
         THEN [raised |-> "None", value |-> PyList(<<>>)]
         ELSE IF models.elems[1].ty = "Model"
         THEN LET each(i) == model_to_dict(models.elems[i]) IN
              IF \E i \in 1..Len(models.elems) : each(i).raised # "None"
              THEN [raised |-> "TypeError"]
              ELSE [raised |-> "None",
                    value |-> PyList([i \in 1..Len(models.elems) |-> each(i).value])]
         ELSE [raised |-> "None", value |-> result_to_dict(models.elems)]
    ELSE IF models.ty = "Model"
    THEN model_to_dict(models)
    ELSE IF models.ty = "Row" /\ Len(models.keys) > 0
    THEN [raised |-> "None", value |-> row_to_dict(models)]
    ELSE [raised |-> "None", value |-> PyNone]

\* sqlalchemy column types of the modelled tables
ColTypes == {"DateTime", "Date", "Time", "Numeric", "Integer"}

\* the non-null value the ORM loads from a column of the given type
ColumnSample(type) ==
    CASE type = "DateTime" -> DT1
      [] type = "Date"     -> D1
      [] type = "Time"     -> T1
      [] type = "Numeric"  -> DEC1
      [] OTHER             -> INT1

\* what the ORM loads from a (nullable) column of the given type
ColumnValues(type) ==
    IF type = "DateTime" THEN {DT1, DT2, PyNone} ELSE {ColumnSample(type), PyNone}

\* values found in the rows of a joined query
RowValues == {DT1, DT2, D1, T1, DEC1, INT1, PyNone}

ColName(i) ==
    IF i = 1 THEN "id" ELSE IF i = 2 THEN "created_at" ELSE "col" \o ToString(i)

\* the tables: every assignment of a type to 1..MaxCols columns
Schemas == UNION { [1..n -> ColTypes] : n \in 1..MaxCols }

\* the entities of one table (instances of flask_sqlalchemy.Model)
Entities(schema) ==
    { [ty |-> "Model",
       columns |-> [i \in DOMAIN schema |-> [name |-> ColName(i), type |-> schema[i]]],
       attrs |-> a] :
      a \in { f \in [DOMAIN schema -> UNION { ColumnValues(t) : t \in ColTypes }] :
                \A i \in DOMAIN schema : f[i] \in ColumnValues(schema[i]) } }

\* the entities a query of one table returns together in a list
ListEntities(schema) ==
    { en \in Entities(schema) :
        \A i \in DOMAIN schema : en.attrs[i] \in {ColumnSample(schema[i]), PyNone} }

\* the rows of a joined query with n columns
Rows(n) ==
    { [ty |-> "Row", keys |-> [i \in 1..n |-> ColName(i)], vals |-> v] :
      v \in [1..n -> RowValues] }

\* the rows one joined query returns together in a list: column i holds
\* values of the type of column i of the schema, or NULL
ListRows(schema) ==
    { r \in Rows(Len(schema)) :
        \A i \in DOMAIN schema : r.vals[i] \in {ColumnSample(schema[i]), PyNone} }

ListsOf(S) == UNION { { PyList(l) : l \in [1..k -> S] } : k \in 1..MaxList }

NotCalled == [raised |-> "NotCalled"]

\* Serializer.as_dict(serInput)
AsDict ==
    /\ serResult = NotCalled
    /\ serResult' = as_dict(serInput)
    /\ serInputAfter' = serInput
    /\ UNCHANGED <<serInput, registryVars, wrapperVars>>

(***************************************************************************)
(* helper.py : standard_resp                                               *)
(***************************************************************************)
\* the failure classes of common.exceptions: each instance carries `data`
CommonExceptions ==
    {"ReturnDataError", "InputError", "AuthFailureError", "NoAccessError",
     "NotExistError", "NotFoundError", "InternalError", "NeedRecordError",
     "K8sError", "GitError", "DevopsBusyError"}

\* the other classes a handler raises: built-in, werkzeug and MsgConst's own
OtherExceptions ==
    {"ConnectionError", "TypeError", "BadRequest", "ConstError", "ConstCaseError",
     "ValueError", "RuntimeError"}

\* the direct base class: ConstCaseError(ConstError), ConstError(TypeError)
base_class(kind) ==
    CASE kind = "ConstCaseError" -> "ConstError"
      [] kind = "ConstError"     -> "TypeError"
      [] OTHER                   -> "Exception"

\* isinstance(e, cls) for an exception e of class kind
RECURSIVE isinstance_exc(_, _)
isinstance_exc(kind, cls) ==
    \/ kind = cls
    \/ kind # "Exception" /\ isinstance_exc(base_class(kind), cls)

\* e.data where the class defines no such attribute
NoAttr == [ty |-> "<no attribute>"]

ExcMessages == {"not found", "busy"}
ExcPayloads == {PyNone, PyDict(<< <<"id", INT1>> >>)}

\* the exceptions a handler raises; msg is the message of the exception, the
\* text str(e) gives
Exceptions ==
    { [kind |-> k, msg |-> m, data |-> d] :
        k \in CommonExceptions, m \in ExcMessages, d \in ExcPayloads }
    \cup { [kind |-> k, msg |-> m, data |-> NoAttr] :
        k \in OtherExceptions, m \in ExcMessages }

\* str(e)
str_exc(e) == e.msg

\* a plausible slip: 401 and 403 exchanged
except_clauses_swapped ==
    << [classes |-> {"ReturnDataError", "InputError"}, status |-> 400, data |-> TRUE],
       [classes |-> {"AuthFailureError"}, status |-> 403, data |-> TRUE],
       [classes |-> {"NoAccessError"}, status |-> 401, data |-> TRUE],
       [classes |-> {"NotExistError", "NotFoundError"}, status |-> 404, data |-> TRUE],
       [classes |-> {"ConnectionError", "TypeError", "BadRequest"},
        status |-> 500, data |-> FALSE],
       [classes |-> {"InternalError", "NeedRecordError", "K8sError", "GitError",
                     "DevopsBusyError"}, status |-> 500, data |-> TRUE],
       [classes |-> {"Exception"}, status |-> 500, data |-> FALSE] >>

\* a plausible slip: the final `except Exception` is missing
except_clauses_nocatchall ==
    << [classes |-> {"ReturnDataError", "InputError"}, status |-> 400, data |-> TRUE],
       [classes |-> {"AuthFailureError"}, status |-> 401, data |-> TRUE],
       [classes |-> {"NoAccessError"}, status |-> 403, data |-> TRUE],
       [classes |-> {"NotExistError", "NotFoundError"}, status |-> 404, data |-> TRUE],
       [classes |-> {"ConnectionError", "TypeError", "BadRequest"},
        status |-> 500, data |-> FALSE],
       [classes |-> {"InternalError", "NeedRecordError", "K8sError", "GitError",
                     "DevopsBusyError"}, status |-> 500, data |-> TRUE] >>

\* the except clauses of make_response, in order; data: the clause passes e.data
except_clauses ==
    << [classes |-> {"ReturnDataError", "InputError"}, status |-> 400, data |-> TRUE],
       [classes |-> {"AuthFailureError"}, status |-> 401, data |-> TRUE],
       [classes |-> {"NoAccessError"}, status |-> 403, data |-> TRUE],
       [classes |-> {"NotExistError", "NotFoundError"}, status |-> 404, data |-> TRUE],
       [classes |-> {"ConnectionError", "TypeError", "BadRequest"},
        status |-> 500, data |-> FALSE],
       [classes |-> {"InternalError", "NeedRecordError", "K8sError", "GitError",
                     "DevopsBusyError"}, status |-> 500, data |-> TRUE],
       [classes |-> {"Exception"}, status |-> 500, data |-> FALSE] >>

\* a plausible slip: the trace is not printed
resp_error_silent(status, msg, data) ==
    [events |-> <<"return">>,
     result |-> [shape |-> "error", http |-> status,
                 body |-> [status |-> status, msg |-> msg, data |-> data]]]

\* resp_error(status, msg, data=None): print the trace, then return (body, status)
resp_error(status, msg, data) ==
    [events |-> <<"print_exc", "return">>,
     result |-> [shape |-> "error", http |-> status,
                 body |-> [status |-> status, msg |-> msg, data |-> data]]]

\* str(n) for n >= 0
RECURSIVE NatChars(_)
NatChars(n) ==
    IF n < 10 THEN <<DigitChars[n + 1]>>
    ELSE NatChars(n \div 10) \o <<DigitChars[(n % 10) + 1]>>

\* repr of a float num / den with den = 10^k, k >= 1, k fractional digits
float_repr(x) ==
    LET RECURSIVE scale(_)
        scale(d) == IF d = 1 THEN 0 ELSE 1 + scale(d \div 10)
    IN  NatChars(x.num \div x.den) \o <<".">> \o Digits(x.num % x.den, scale(x.den))

\* json.JSONEncoder can encode v (no `default` is given)
RECURSIVE json_encodable(_)
json_encodable(v) ==
    CASE v.ty \in {"NoneType", "int", "float", "str"} -> TRUE
      [] v.ty = "dict" -> \A i \in 1..Len(v.items) : json_encodable(v.items[i][2])
      [] v.ty = "list" -> \A i \in 1..Len(v.elems) : json_encodable(v.elems[i])
      [] OTHER -> FALSE

\* the text json.dumps(v, ensure_ascii=False) writes, as a sequence of fragments
RECURSIVE json_text(_)
json_text(v) ==
    LET RECURSIVE members(_, _)
        members(items, i) ==
            IF i > Len(items) THEN <<>>
            ELSE (IF i > 1 THEN <<", ">> ELSE <<>>)
                 \o <<"\"", items[i][1], "\"", ": ">> \o json_text(items[i][2])
                 \o members(items, i + 1)
        RECURSIVE elements(_, _)
        elements(elems, i) ==
            IF i > Len(elems) THEN <<>>
            ELSE (IF i > 1 THEN <<", ">> ELSE <<>>)
                 \o json_text(elems[i]) \o elements(elems, i + 1)
    IN  CASE v.ty = "NoneType" -> <<"null">>
          [] v.ty = "int"      -> NatChars(v.n)
          [] v.ty = "float"    -> float_repr(v)
          [] v.ty = "str"      -> <<"\"">> \o v.chars \o <<"\"">>
          [] v.ty = "dict"     -> <<"{">> \o members(v.items, 1) \o <<"}">>
          [] v.ty = "list"     -> <<"[">> \o elements(v.elems, 1) \o <<"]">>

\* json.dumps(v, ensure_ascii=False): TypeError on an object it cannot encode
json_dumps(v) ==
    IF json_encodable(v)
    THEN [raised |-> "None", text |-> json_text(v)]
    ELSE [raised |-> "TypeError"]

\* the wrapped function make_response(*args, **kwargs), given what func did
make_response(outcome) ==
    IF outcome.returned
    THEN LET dumped == json_dumps(PyDict(<< <<"code", PyInt(200)>>,
                                            <<"result", outcome.value>> >>))
         IN  IF dumped.raised # "None"
             THEN [events |-> <<"raise">>,
                   result |-> [shape |-> "raised", exc |-> dumped.raised]]
             ELSE [events |-> <<"return">>,
                   result |-> [shape |-> "success", http |-> 200,
                               content_type |-> "application/json",
                               body |-> dumped.text]]
    ELSE LET e == outcome.exc
             matching == { i \in 1..Len(except_clauses) :
                             \E cls \in except_clauses[i].classes :
                                isinstance_exc(e.kind, cls) }
         IN  IF matching = {}
             THEN [events |-> <<"raise">>,
                   result |-> [shape |-> "raised", exc |-> e.kind]]
             ELSE LET clause == except_clauses[CHOOSE i \in matching :
                                                 \A j \in matching : i <= j]
                  IN  IF clause.data /\ e.data = NoAttr
                      THEN [events |-> <<"raise">>,
                            result |-> [shape |-> "raised", exc |-> "AttributeError"]]
                      ELSE resp_error(clause.status, str_exc(e),
                                      IF clause.data THEN e.data ELSE PyNone)

\* what handlers return: plain values and results of Serializer.as_dict
HandlerValues ==
    {PyNone, INT1, PyStr(<<"o", "k">>), DT1, DEC1}
    \cup { as_dict(m).value :
             m \in { x \in {PyNone, PyList(<<>>)}
                           \cup UNION { Entities(sc) : sc \in [1..1 -> ColTypes] }
                           \cup UNION { { PyList(<<en>>) : en \in Entities(sc) } :
                                        sc \in [1..1 -> ColTypes] }
                           \cup Rows(1) :
                       as_dict(x).raised = "None" } }

\* what func(*args, **kwargs) does: return a value or raise
Outcomes ==
    { [returned |-> TRUE, value |-> v] : v \in HandlerValues }
    \cup { [returned |-> FALSE, exc |-> e] : e \in Exceptions }

NoCall == [shape |-> "NoCall"]

\* one call of the function wrapped by standard_resp
MakeResponse ==
    /\ stderrTraces < MaxTraces
    /\ \E outcome \in Outcomes :
          LET r == make_response(outcome) IN
          /\ handlerOutcome' = outcome
          /\ wrapperResult' = r.result
          /\ wrapperEvents' = r.events
          /\ stderrTraces' = stderrTraces
                 + Cardinality({ i \in 1..Len(r.events) : r.events[i] = "print_exc" })
    /\ UNCHANGED <<registryVars, serializerVars>>

(***************************************************************************)
(* Specifications                                                          *)
(***************************************************************************)
\* msg_const = MsgConst()
RegistryInit ==
    /\ registry = [n \in {} |-> 0]
    /\ setattrArgs = <<>>
    /\ setattrRaised = "None"

WrapperInit ==
    /\ handlerOutcome = NoCall
    /\ wrapperResult = NoCall
    /\ wrapperEvents = <<>>
    /\ stderrTraces = 0

SerializerIdle ==
    /\ serInput = PyNone
    /\ serInputAfter = PyNone
    /\ serResult = NotCalled

\* the call is about to be made, with any of the arguments as_dict is called
\* with: nothing, an empty list, an entity, a row, a list of entities of one
\* table, a list of rows of one joined query
SerializerInit ==
    /\ \/ serInput \in {PyNone, PyList(<<>>)}
       \/ \E sc \in Schemas : serInput \in Entities(sc)
       \/ \E n \in 1..MaxCols : serInput \in Rows(n)
       \/ \E sc \in Schemas : serInput \in ListsOf(ListEntities(sc))
       \/ \E sc \in Schemas : serInput \in ListsOf(ListRows(sc))
    /\ serInputAfter = serInput
    /\ serResult = NotCalled

InitRegistry == RegistryInit /\ WrapperInit /\ SerializerIdle
InitWrapper == RegistryInit /\ WrapperInit /\ SerializerIdle
InitSerializer == RegistryInit /\ WrapperInit /\ SerializerInit

NextRegistry == Setattr
NextWrapper == MakeResponse
NextSerializer == AsDict

SpecRegistry == InitRegistry /\ [][NextRegistry]_vars
SpecWrapper == InitWrapper /\ [][NextWrapper]_vars
SpecSerializer == InitSerializer /\ [][NextSerializer]_vars

(***************************************************************************)
(* Properties of the registry                                              *)
(***************************************************************************)
SetattrCalled == Len(setattrArgs) = 2

\* C5: the registry is write-once.  A successful set stores its value; no
\* step ever removes a key or changes the value a key holds, so a key holds
\* the value of the first successful set on it; and a set on a key that
\* already holds a value, whatever the new value, raises ConstError and
\* leaves the registry as it was.
C5_WriteOnce ==
    [][ /\ \A k \in DOMAIN registry :
              k \in DOMAIN registry' /\ registry'[k] = registry[k]
        /\ (Len(setattrArgs') = 2 /\ setattrRaised' = "None")
              => /\ setattrArgs'[1] \in DOMAIN registry'
                 /\ registry'[setattrArgs'[1]] = setattrArgs'[2]
        /\ (Len(setattrArgs') = 2 /\ setattrArgs'[1] \in DOMAIN registry)
              => /\ setattrRaised' = "ConstError"
                 /\ registry' = registry ]_vars

\* a second set of APPLICATION_404, with another value, was rejected
C5_Witness ==
    /\ SetattrCalled
    /\ setattrArgs[1] = APPLICATION_404
    /\ setattrRaised = "ConstError"
    /\ APPLICATION_404 \in DOMAIN registry
    /\ registry[APPLICATION_404] # setattrArgs[2]

\* a name that is not entirely upper-case: it has a lower-case letter, or no
\* letter at all
NotUpperCase(name) ==
    \/ \E i \in 1..Len(name) : name[i] \in LowerChars
    \/ \A i \in 1..Len(name) : name[i] \notin UpperChars

\* C6: a set on a key that is not yet set and is not entirely upper-case
\* raises ConstCaseError and stores nothing, and every key the registry
\* holds is upper-case.
C6_UpperCaseOnly ==
    /\ [](\A k \in DOMAIN registry : ~NotUpperCase(k))
    /\ [][ (/\ Len(setattrArgs') = 2
            /\ setattrArgs'[1] \notin DOMAIN registry
            /\ NotUpperCase(setattrArgs'[1]))
              => /\ setattrRaised' = "ConstCaseError"
                 /\ registry' = registry ]_vars

\* a mixed-case name was rejected while the registry already held a constant
C6_Witness ==
    /\ SetattrCalled
    /\ setattrArgs[1] = <<"A","p","p","_","4","0","4">>
    /\ setattrRaised = "ConstCaseError"
    /\ DOMAIN registry = {APPLICATION_404}

(***************************************************************************)
(* Properties of the response wrapper                                      *)
(***************************************************************************)
HandlerReturned == handlerOutcome # NoCall /\ handlerOutcome.returned
HandlerRaised == handlerOutcome # NoCall /\ ~handlerOutcome.returned

\* C1: a handler that returns v gets status 200 and the success body
\* {"code": 200, "result": v}, never the error shape, whatever v is.
C1_SuccessEnvelope ==
    HandlerReturned =>
        /\ wrapperResult.shape = "success"
        /\ wrapperResult.http = 200
        /\ wrapperResult.body =
              <<"{", "\"", "code", "\"", ": ", "2", "0", "0", ", ",
                "\"", "result", "\"", ": ">>
              \o json_text(handlerOutcome.value) \o <<"}">>

\* the status of the table of failure kinds
TableStatus(kind) ==
    CASE kind \in {"ReturnDataError", "InputError"}  -> 400
      [] kind = "AuthFailureError"                   -> 401
      [] kind = "NoAccessError"                      -> 403
      [] kind \in {"NotExistError", "NotFoundError"} -> 404
      [] OTHER                                       -> 500

\* the rows of the table whose body carries the failure's payload
TableHasData(kind) ==
    kind \in {"ReturnDataError", "InputError", "AuthFailureError", "NoAccessError",
              "NotExistError", "NotFoundError", "InternalError", "NeedRecordError",
              "K8sError", "GitError", "DevopsBusyError"}

\* C2: a failure of kind K gets the status of the table, msg is the
\* failure's message, and data is the failure's payload on the rows that
\* carry one and null on the others.
C2_StatusTable ==
    HandlerRaised =>
        LET e == handlerOutcome.exc IN
        /\ wrapperResult.shape = "error"
        /\ wrapperResult.http = TableStatus(e.kind)
        /\ wrapperResult.body.status = TableStatus(e.kind)
        /\ wrapperResult.body.msg = e.msg
        /\ wrapperResult.body.data = IF TableHasData(e.kind) THEN e.data ELSE PyNone

\* a not-found failure with a payload was answered with 404 and its payload
C2_Witness ==
    /\ HandlerRaised
    /\ handlerOutcome.exc.kind = "NotFoundError"
    /\ handlerOutcome.exc.data # PyNone
    /\ wrapperResult.shape = "error"
    /\ wrapperResult.http = 404
    /\ wrapperResult.body.data = handlerOutcome.exc.data

\* C3: classification is total.  Whatever the handler raises, the caller
\* gets an error envelope with exactly status, msg and data, and nothing is
\* raised out of the wrapper.
C3_Total ==
    HandlerRaised =>
        /\ wrapperResult.shape = "error"
        /\ DOMAIN wrapperResult.body = {"status", "msg", "data"}
        /\ wrapperResult.body.status \in 400..599
        /\ wrapperResult.body.msg \in ExcMessages
        /\ \A i \in 1..Len(wrapperEvents) : wrapperEvents[i] # "raise"
        /\ wrapperEvents[Len(wrapperEvents)] = "return"

\* a failure of no classified kind was answered with an error envelope
C3_Witness ==
    /\ HandlerRaised
    /\ handlerOutcome.exc.kind = "ValueError"
    /\ wrapperResult.shape = "error"
    /\ wrapperResult.body.status = 500
    /\ wrapperResult.body.data = PyNone

\* C4: a call whose handler fails prints one trace, and prints it before it
\* returns the error body; a call whose handler returns normally prints none.
C4_TraceOnFailure ==
    [][ /\ (handlerOutcome' # NoCall /\ ~handlerOutcome'.returned)
              => /\ stderrTraces' = stderrTraces + 1
                 /\ \E i, j \in 1..Len(wrapperEvents') :
                       /\ i < j
                       /\ wrapperEvents'[i] = "print_exc"
                       /\ wrapperEvents'[j] = "return"
                       /\ wrapperResult'.shape = "error"
        /\ (handlerOutcome' # NoCall /\ handlerOutcome'.returned)
              => /\ stderrTraces' = stderrTraces
                 /\ \A i \in 1..Len(wrapperEvents') : wrapperEvents'[i] # "print_exc"
      ]_wrapperVars

\* an unclassified failure was traced, then answered
C4_Witness ==
    /\ HandlerRaised
    /\ handlerOutcome.exc.kind = "RuntimeError"
    /\ wrapperEvents = <<"print_exc", "return">>
    /\ stderrTraces = 1

(***************************************************************************)
(* Properties of the serializer                                            *)
(***************************************************************************)
SerCalled == serResult # NotCalled
SerReturned == SerCalled /\ serResult.raised = "None"

IsDigit(c) == \E d \in 0..9 : DigitChars[d + 1] = c
DigitVal(c) == CHOOSE d \in 0..9 : DigitChars[d + 1] = c

\* the number written in decimal at positions from..to of the characters cs
RECURSIVE NumberAt(_, _, _)
NumberAt(cs, from, to) ==
    IF from > to THEN 0
    ELSE 10 * NumberAt(cs, from, to - 1) + DigitVal(cs[to])

AllDigits(cs, positions) == \A i \in positions : IsDigit(cs[i])

\* out is the text YYYY-MM-DD HH:MM:SS of the datetime v
IsDatetimeText(out, v) ==
    /\ out.ty = "str"
    /\ Len(out.chars) = 19
    /\ out.chars[5] = "-" /\ out.chars[8] = "-" /\ out.chars[11] = " "
    /\ out.chars[14] = ":" /\ out.chars[17] = ":"
    /\ AllDigits(out.chars, (1..19) \ {5, 8, 11, 14, 17})
    /\ NumberAt(out.chars, 1, 4) = v.year
    /\ NumberAt(out.chars, 6, 7) = v.month
    /\ NumberAt(out.chars, 9, 10) = v.day
    /\ NumberAt(out.chars, 12, 13) = v.hour
    /\ NumberAt(out.chars, 15, 16) = v.minute
    /\ NumberAt(out.chars, 18, 19) = v.second

\* out is the text YYYY-MM-DD of the date v
IsDateText(out, v) ==
    /\ out.ty = "str"
    /\ Len(out.chars) = 10
    /\ out.chars[5] = "-" /\ out.chars[8] = "-"
    /\ AllDigits(out.chars, (1..10) \ {5, 8})
    /\ NumberAt(out.chars, 1, 4) = v.year
    /\ NumberAt(out.chars, 6, 7) = v.month
    /\ NumberAt(out.chars, 9, 10) = v.day

\* out is the text HH:MM:SS of the time v
IsTimeText(out, v) ==
    /\ out.ty = "str"
    /\ Len(out.chars) = 8
    /\ out.chars[3] = ":" /\ out.chars[6] = ":"
    /\ AllDigits(out.chars, (1..8) \ {3, 6})
    /\ NumberAt(out.chars, 1, 2) = v.hour
    /\ NumberAt(out.chars, 4, 5) = v.minute
    /\ NumberAt(out.chars, 7, 8) = v.second

\* the (entity, mapping) pairs of a call on an entity or a list of entities
EntityPairs ==
    IF serInput.ty = "Model" THEN { <<serInput, serResult.value>> }
    ELSE IF serInput.ty = "list" /\ Len(serInput.elems) > 0
            /\ serInput.elems[1].ty = "Model"
            /\ serResult.value.ty = "list"
            /\ Len(serResult.value.elems) = Len(serInput.elems)
    THEN { <<serInput.elems[i], serResult.value.elems[i]>> :
             i \in 1..Len(serInput.elems) }
    ELSE {}

\* C7: whenever an entity is serialized, its mapping has one key per
\* declared column, a DateTime column reads YYYY-MM-DD HH:MM:SS, a Date
\* column YYYY-MM-DD, a Time column HH:MM:SS, and a column of another
\* non-numeric type holds the stored value itself.
C7_TemporalByDeclaredType ==
    SerReturned =>
        \A p \in EntityPairs :
            LET en == p[1]
                d == p[2]
            IN  /\ d.ty = "dict"
                /\ Len(d.items) = Len(en.columns)
                /\ \A i \in 1..Len(en.columns) :
                      LET type == en.columns[i].type
                          attr == en.attrs[i]
                          out == d.items[i][2]
                      IN  /\ d.items[i][1] = en.columns[i].name
                          /\ (type = "DateTime" /\ attr # PyNone)
                                => IsDatetimeText(out, attr)
                          /\ (type = "Date" /\ attr # PyNone) => IsDateText(out, attr)
                          /\ (type = "Time" /\ attr # PyNone) => IsTimeText(out, attr)
                          /\ type \notin {"DateTime", "Date", "Time", "Numeric"}
                                => out = attr

\* C8: as_dict dispatches on the shape of its input: an empty list gives an
\* empty list, a list gives one mapping per element in input order, a single
\* entity or row gives one mapping, an absent input gives None, and the
\* input is left as it was.
C8_ShapeDispatch ==
    SerCalled =>
        /\ serResult.raised = "None"
        /\ serInputAfter = serInput
        /\ serInput.ty = "list" =>
              /\ serResult.value.ty = "list"
              /\ Len(serResult.value.elems) = Len(serInput.elems)
              /\ \A i \in 1..Len(serInput.elems) :
                    /\ serResult.value.elems[i].ty = "dict"
                    /\ serResult.value.elems[i] = as_dict(serInput.elems[i]).value
        /\ serInput.ty \in {"Model", "Row"} => serResult.value.ty = "dict"
        /\ serInput = PyNone => serResult.value = PyNone

\* the (row, mapping) pairs of a call on a row or a list of rows
RowPairs ==
    IF serInput.ty = "Row" THEN { <<serInput, serResult.value>> }
    ELSE IF serInput.ty = "list" /\ Len(serInput.elems) > 0
            /\ serInput.elems[1].ty = "Row"
            /\ serResult.value.ty = "list"
    THEN { <<serInput.elems[i], serResult.value.elems[i]>> :
             i \in 1..Len(serInput.elems) }
    ELSE {}

\* C9: a raw row, alone or in a list, becomes a mapping from its column
\* names, in the row's order, to its values; a value of type datetime, date
\* or time is written in the fixed format of its type, every other value
\* (numbers and None too) is the value itself.
C9_RowsByRuntimeType ==
    (SerCalled /\ (serInput.ty = "Row"
                   \/ (serInput.ty = "list" /\ Len(serInput.elems) > 0
                       /\ serInput.elems[1].ty = "Row"))) =>
        /\ serResult.raised = "None"
        /\ serInput.ty = "list" =>
              /\ serResult.value.ty = "list"
              /\ Len(serResult.value.elems) = Len(serInput.elems)
        /\ \A p \in RowPairs :
              LET r == p[1]
                  d == p[2]
              IN  /\ d.ty = "dict"
                  /\ Len(d.items) = Len(r.keys)
                  /\ \A i \in 1..Len(r.keys) :
                        LET v == r.vals[i]
                            out == d.items[i][2]
                        IN  /\ d.items[i][1] = r.keys[i]
                            /\ v.ty = "datetime" => IsDatetimeText(out, v)
                            /\ v.ty = "date" => IsDateText(out, v)
                            /\ v.ty = "time" => IsTimeText(out, v)
                            /\ v.ty \notin {"datetime", "date", "time"} => out = v

\* two joined rows (id, created_at) came out as two mappings with created_at
\* written as "2023-05-01 10:15:30" and id untouched
C9_Witness ==
    /\ SerReturned
    /\ serInput = PyList(<< [ty |-> "Row", keys |-> <<"id", "created_at">>,
                             vals |-> <<INT1, DT1>>],
                            [ty |-> "Row", keys |-> <<"id", "created_at">>,
                             vals |-> <<INT1, DT1>>] >>)
    /\ Len(serResult.value.elems) = 2
    /\ \A i \in 1..2 :
          serResult.value.elems[i] =
              PyDict(<< <<"id", INT1>>,
                        <<"created_at",
                          PyStr(<<"2","0","2","3","-","0","5","-","0","1"," ",
                                  "1","0",":","1","5",":","3","0">>)>> >>)

\* C10: an entity with a Numeric column is serialized to a mapping, never a
\* failure, and the column comes out as a float equal to the stored value.
C10_NumericAsFloat ==
    (SerCalled /\ serInput.ty = "Model") =>
        /\ serResult.raised = "None"
        /\ \A i \in 1..Len(serInput.columns) :
              (serInput.columns[i].type = "Numeric" /\ serInput.attrs[i].ty = "Decimal")
                 => LET out == serResult.value.items[i][2]
                        attr == serInput.attrs[i]
                    IN  /\ out.ty = "float"
                        /\ out.num * Pow10(attr.scale) = attr.unscaled * out.den

====
